---- MODULE Spec2Model ----
(***************************************************************************)
(* Model of the holefill library (src/src/holefill.cpp, src/src/holefill.h) *)
(*                                                                         *)
(* A scalar buffer is a row-major array of IEEE-754 binary32 values; a     *)
(* negative value marks a hole.  The fillers fill, fillApproximate (queue  *)
(* based and windowed) and fillExactWithSearch (the radius overload and the *)
(* k-nearest overload) mutate the buffer in place.                         *)
(*                                                                         *)
(* A float is modelled bit-exactly for finite normal values as the record  *)
(* [s, m, e] with value (-1)^s * m * 2^e, where m = 0 (zero) or            *)
(* 2^23 <= m < 2^24.  Every arithmetic operator rounds to nearest, ties to *)
(* even, as the hardware does.  Exponents are unbounded: overflow and      *)
(* denormals are outside the inputs the model draws.                       *)
(***************************************************************************)
EXTENDS Integers, Sequences, FiniteSets, TLC

\* ------------------------------------------------------------------ bounds
MaxWidth == 3
MaxHeight == 3
MaxCells == 9

\* ------------------------------------------------------- binary32 arithmetic
MantBits == 24
MantMin == 2^(MantBits - 1)
MantMax == 2^MantBits
HalfWord == 2^(MantBits \div 2)

\* number of significant bits of n, 0 <= n < 2^30
BitLen(n) ==
    IF n >= MantMin
    THEN CHOOSE k \in MantBits..30 : n < 2^k /\ n >= 2^(k - 1)
    ELSE CHOOSE k \in 0..(MantBits - 1) : n < 2^k /\ (k = 0 \/ n >= 2^(k - 1))

FZero == [s |-> 0, m |-> 0, e |-> 0]
\* the result of 0.0f / 0 (never read back by the code paths modelled)
FNaN == [s |-> 0, m |-> 0, e |-> 1]

\* (-1)^s * (M + f) * 2^e, 0 <= f < 1 and f > 0 iff sticky, rounded to binary32
RoundPack(s, M, e, sticky) ==
    IF M = 0 THEN FZero
    ELSE LET nb == BitLen(M) IN
         IF nb <= MantBits
         THEN [s |-> s, m |-> M * 2^(MantBits - nb), e |-> e - (MantBits - nb)]
         ELSE LET sh == nb - MantBits
                  q == M \div 2^sh
                  r == M % 2^sh
                  half == 2^(sh - 1)
                  up == r > half \/ (r = half /\ (sticky \/ q % 2 = 1))
                  q1 == IF up THEN q + 1 ELSE q
              IN IF q1 = MantMax
                 THEN [s |-> s, m |-> MantMin, e |-> e + sh + 1]
                 ELSE [s |-> s, m |-> q1, e |-> e + sh]

\* static_cast<float>(n), and the implicit int -> float conversions
FromInt(n) == IF n < 0 THEN RoundPack(1, -n, 0, FALSE) ELSE RoundPack(0, n, 0, FALSE)

MagLt(a, b) ==
    IF b.m = 0 THEN FALSE
    ELSE IF a.m = 0 THEN TRUE
    ELSE a.e < b.e \/ (a.e = b.e /\ a.m < b.m)

\* a < b
FLt(a, b) ==
    IF a.s = 0 /\ b.s = 0 THEN MagLt(a, b)
    ELSE IF a.s = 1 /\ b.s = 1 THEN MagLt(b, a)
    ELSE a.s = 1 /\ (a.m # 0 \/ b.m # 0)

\* a >= b, a > b, std::max(a, b)
FGe(a, b) == ~FLt(a, b)
FGt(a, b) == FLt(b, a)
FMax(a, b) == IF FLt(a, b) THEN b ELSE a

FNeg(a) == IF a.m = 0 THEN a ELSE [a EXCEPT !.s = 1 - a.s]

\* hi + lo or hi - lo on magnitudes, |hi| >= |lo| > 0, three guard bits and a sticky bit
MagAddSub(hi, lo, sub) ==
    LET d == hi.e - lo.e
        A == hi.m * 8
        B0 == lo.m * 8
        B == IF d >= MantBits + 3 THEN 0 ELSE B0 \div 2^d
        st == IF d >= MantBits + 3 THEN TRUE ELSE B0 % 2^d # 0
    IN IF sub
       THEN RoundPack(hi.s, IF st THEN A - B - 1 ELSE A - B, hi.e - 3, st)
       ELSE RoundPack(hi.s, A + B, hi.e - 3, st)

\* a + b
FAdd(a, b) ==
    IF a.m = 0 THEN b
    ELSE IF b.m = 0 THEN a
    ELSE LET hi == IF MagLt(a, b) THEN b ELSE a
             lo == IF MagLt(a, b) THEN a ELSE b
         IN MagAddSub(hi, lo, a.s # b.s)

\* a - b
FSub(a, b) == FAdd(a, FNeg(b))

\* a * b: the 48-bit product of the mantissas from 12-bit halves
FMul(a, b) ==
    IF a.m = 0 \/ b.m = 0 THEN FZero
    ELSE LET a1 == a.m \div HalfWord
             a0 == a.m % HalfWord
             b1 == b.m \div HalfWord
             b0 == b.m % HalfWord
             mid == a1 * b0 + a0 * b1
             lo0 == a0 * b0 + (mid % HalfWord) * HalfWord
             hi == a1 * b1 + mid \div HalfWord + lo0 \div MantMax
             lo == lo0 % MantMax
             M == hi * 8 + lo \div (MantMax \div 8)
             st == lo % (MantMax \div 8) # 0
         IN RoundPack((a.s + b.s) % 2, M, a.e + b.e + MantBits - 3, st)

\* seven more quotient bits of the long division by d: qr = <<quotient, remainder>>
DivBits(qr, d) == << qr[1] * 128 + (qr[2] * 128) \div d, (qr[2] * 128) % d >>

\* a / b by long division of the mantissas, 28 quotient bits below the leading one
FDiv(a, b) ==
    IF b.m = 0 THEN FNaN
    ELSE IF a.m = 0 THEN FZero
    ELSE LET q0 == << a.m \div b.m, a.m % b.m >>
             q1 == DivBits(q0, b.m)
             q2 == DivBits(q1, b.m)
             q3 == DivBits(q2, b.m)
             qr == DivBits(q3, b.m)
         IN RoundPack((a.s + b.s) % 2, qr[1], a.e - b.e - 28, qr[2] # 0)

\* the digit-by-digit square root in base 8: st.root and st.rem are the root and the
\* remainder of the digits of the radicand x * 2^24 taken so far, st.k the number of
\* base-64 digits still to bring down, two of x and then four of zero
RECURSIVE SqrtBits(_, _)
SqrtBits(x, st) ==
    IF st.k = 0 THEN st
    ELSE LET digit == IF st.k = 6 THEN (x \div 64) % 64 ELSE IF st.k = 5 THEN x % 64 ELSE 0
             rem == 64 * st.rem + digit
             d == CHOOSE c \in 0..7 :
                      /\ c * (16 * st.root + c) <= rem
                      /\ c = 7 \/ (c + 1) * (16 * st.root + c + 1) > rem
         IN SqrtBits(x, [k |-> st.k - 1, root |-> 8 * st.root + d,
                         rem |-> rem - d * (16 * st.root + d)])

\* std::sqrt(a), a >= 0: the 26-bit root of mantissa * 2^26, started from the root of
\* the leading 16 bits of the radicand
FSqrt(a) ==
    IF a.m = 0 THEN FZero
    ELSE LET odd == a.e % 2 = 1
             m2 == IF odd THEN 2 * a.m ELSE a.m
             e2 == IF odd THEN a.e - 1 ELSE a.e
             top == m2 \div 1024
             r0 == CHOOSE r \in 0..181 : r * r <= top /\ (r + 1) * (r + 1) > top
             rr == SqrtBits(4 * m2, [k |-> 6, root |-> r0, rem |-> top - r0 * r0])
         IN RoundPack(0, rr.root, (e2 \div 2) - 13, rr.rem # 0)

FOne == FromInt(1)
\* std::numeric_limits<float>::epsilon() = 2^-23
FEpsilon == [s |-> 0, m |-> MantMin, e |-> 2 - 2 * MantBits]
\* 1.5f
FOneAndHalf == [s |-> 0, m |-> 3 * (MantMin \div 2), e |-> 1 - MantBits]
\* -1.0f, the value main() writes into masked cells
FHole == FNeg(FOne)
\* 0.1f = 13421773 * 2^-27
FTenth == [s |-> 0, m |-> 13421773, e |-> -27]

\* ------------------------------------------------------------ coordinates
Coord(x, y) == [x |-> x, y |-> y]

getPixel(image, x, y, width) == image[y * width + x]

SeqRange(sq) == {sq[i] : i \in 1..Len(sq)}

\* A loop of the code is a recursive operator over the record st of the loop's
\* variables, st.k the index of the next iteration; it yields st as the loop leaves it.

\* ---------------------------------------------------------- weight functions
\* caller-supplied WeightFunction values the model draws from:
\*   "one"   constant 1
\*   "zero"  constant 0
\*   "invsq" 1 / (1 + distSq), the README's example
\*   "axis"  1 when u and v share a row or a column, else 0
WeightFunctions == {"one", "zero", "invsq", "axis"}

\* float distSq = dx * dx + dy * dy; return 1.0f / (1.0f + distSq)
InvSqOfOffsets(dx, dy) == FDiv(FOne, FAdd(FOne, FAdd(FMul(dx, dx), FMul(dy, dy))))

\* float dx = a.x - b.x; float dy = a.y - b.y; and the lines above
InvSqWeight(idx, idy) == InvSqOfOffsets(FromInt(idx), FromInt(idy))

\* InvSqWeight tabulated over the coordinate differences of the grid
InvSqTable ==
    [d \in (-MaxWidth..MaxWidth) \X (-MaxHeight..MaxHeight) |-> InvSqWeight(d[1], d[2])]

weightFunc(wf, u, v) ==
    CASE wf = "one" -> FOne
      [] wf = "zero" -> FZero
      [] wf = "axis" -> IF u.x = v.x \/ u.y = v.y THEN FOne ELSE FZero
      [] wf = "invsq" -> InvSqTable[<<u.x - v.x, u.y - v.y>>]

\* ------------------------------------------------- hole / boundary detection
findHolePixels(image, width, height) ==
    SelectSeq([i \in 1..(width * height) |-> Coord((i - 1) % width, (i - 1) \div width)],
              LAMBDA p : FLt(getPixel(image, p.x, p.y, width), FZero))

Offsets4 == << Coord(-1, 0), Coord(1, 0), Coord(0, -1), Coord(0, 1) >>
Offsets8 == Offsets4 \o << Coord(-1, -1), Coord(-1, 1), Coord(1, -1), Coord(1, 1) >>

InBounds(nx, ny, width, height) == nx >= 0 /\ nx < width /\ ny >= 0 /\ ny < height

\* mutant of NewBoundary: the boundarySet test left out, a neighbour of two hole
\* pixels is pushed twice
NewBoundaryRepeated(image, width, height, holePixels, offsets, p, boundaryPixels) ==
    LET neighbors == [k \in 1..Len(offsets) |-> Coord(p.x + offsets[k].x, p.y + offsets[k].y)]
        IsNew(neighbor) ==
            /\ InBounds(neighbor.x, neighbor.y, width, height)
            /\ neighbor \notin SeqRange(holePixels)
            /\ FGe(getPixel(image, neighbor.x, neighbor.y, width), FZero)
    IN SelectSeq(neighbors, IsNew)

\* mutant of NewBoundary: the value >= 0.0f test left out
NewBoundaryAnyValue(image, width, height, holePixels, offsets, p, boundaryPixels) ==
    LET neighbors == [k \in 1..Len(offsets) |-> Coord(p.x + offsets[k].x, p.y + offsets[k].y)]
        IsNew(neighbor) ==
            /\ InBounds(neighbor.x, neighbor.y, width, height)
            /\ neighbor \notin SeqRange(holePixels)
            /\ neighbor \notin SeqRange(boundaryPixels)
    IN SelectSeq(neighbors, IsNew)

\* the inner loop over the offsets for hole pixel p: the neighbours pushed, in offset order
NewBoundary(image, width, height, holePixels, offsets, p, boundaryPixels) ==
    LET neighbors == [k \in 1..Len(offsets) |-> Coord(p.x + offsets[k].x, p.y + offsets[k].y)]
        IsNew(neighbor) ==
            /\ InBounds(neighbor.x, neighbor.y, width, height)
            /\ neighbor \notin SeqRange(holePixels)
            /\ FGe(getPixel(image, neighbor.x, neighbor.y, width), FZero)
            /\ neighbor \notin SeqRange(boundaryPixels)
    IN SelectSeq(neighbors, IsNew)

\* the outer loop over the hole pixels
RECURSIVE BoundaryScan(_, _, _, _, _, _)
BoundaryScan(image, width, height, holePixels, offsets, st) ==
    IF st.k > Len(holePixels) THEN st
    ELSE BoundaryScan(image, width, height, holePixels, offsets,
            [k |-> st.k + 1,
             boundaryPixels |->
                 st.boundaryPixels \o NewBoundary(image, width, height, holePixels, offsets,
                                                  holePixels[st.k], st.boundaryPixels)])

\* mutant of findBoundaryPixels: use8Connectivity ignored, always the eight offsets
findBoundaryPixelsAlways8(image, width, height, holePixels, use8Connectivity) ==
    BoundaryScan(image, width, height, holePixels, Offsets8,
                 [k |-> 1, boundaryPixels |-> <<>>]).boundaryPixels

findBoundaryPixels(image, width, height, holePixels, use8Connectivity) ==
    BoundaryScan(image, width, height, holePixels,
                 IF use8Connectivity THEN Offsets8 ELSE Offsets4,
                 [k |-> 1, boundaryPixels |-> <<>>]).boundaryPixels

\* --------------------------------------------------------- exhaustive filler
\* numerator += w * intensity; denominator += w; and the step of the loop index
AddWeighted(st, w, intensity) ==
    [k |-> st.k + 1,
     numerator |-> FAdd(st.numerator, FMul(w, intensity)),
     denominator |-> FAdd(st.denominator, w)]

\* mutant of Accumulate: the denominator counts the points instead of adding weights
RECURSIVE AccumulateCounting(_, _, _, _, _, _)
AccumulateCounting(image, width, wf, u, pts, st) ==
    IF st.k > Len(pts) THEN st
    ELSE LET v == pts[st.k]
             next == AddWeighted(st, weightFunc(wf, u, v), getPixel(image, v.x, v.y, width))
         IN AccumulateCounting(image, width, wf, u, pts,
                [next EXCEPT !.denominator = FAdd(st.denominator, FOne)])

\* the inner loop of fill and fillExactWithSearch over the points pts
RECURSIVE Accumulate(_, _, _, _, _, _)
Accumulate(image, width, wf, u, pts, st) ==
    IF st.k > Len(pts) THEN st
    ELSE LET v == pts[st.k]
         IN Accumulate(image, width, wf, u, pts,
                AddWeighted(st, weightFunc(wf, u, v), getPixel(image, v.x, v.y, width)))

\* float numerator = 0.0f; float denominator = 0.0f; and the loop index
ZeroSums == [k |-> 1, numerator |-> FZero, denominator |-> FZero]

\* mutant of Quotient: the epsilon guard and its 0.0f fallback left out
QuotientUnguarded(nd) == FDiv(nd.numerator, nd.denominator)

\* (denominator > epsilon) ? numerator / denominator : 0.0f
Quotient(nd) ==
    IF FGt(nd.denominator, FEpsilon) THEN FDiv(nd.numerator, nd.denominator) ELSE FZero

\* mutant of FillLoop: the write indexes the buffer with x and y exchanged
RECURSIVE FillLoopTransposed(_, _, _, _)
FillLoopTransposed(width, wf, env, st) ==
    IF st.k > Len(env.holePixels) THEN st
    ELSE LET u == env.holePixels[st.k]
         IN FillLoopTransposed(width, wf, env,
                [k |-> st.k + 1,
                 image |-> [st.image EXCEPT ![u.x * width + u.y] =
                     Quotient(Accumulate(st.image, width, wf, u, env.boundaryPixels, ZeroSums))]])

\* the outer loop of fill over the hole pixels, writing into the buffer st.image in
\* place; env holds the locals set before the loop: holePixels and boundaryPixels
RECURSIVE FillLoop(_, _, _, _)
FillLoop(width, wf, env, st) ==
    IF st.k > Len(env.holePixels) THEN st
    ELSE LET u == env.holePixels[st.k]
         IN FillLoop(width, wf, env,
                [k |-> st.k + 1,
                 image |-> [st.image EXCEPT ![u.y * width + u.x] =
                     Quotient(Accumulate(st.image, width, wf, u, env.boundaryPixels, ZeroSums))]])

\* mutant of fill: the boundary is found with 4-connectivity
fillFourConnected(image, width, height, wf) ==
    LET holePixels == findHolePixels(image, width, height)
        env == [holePixels |-> holePixels,
                boundaryPixels |-> findBoundaryPixels(image, width, height, holePixels, FALSE)]
    IN FillLoop(width, wf, env, [k |-> 1, image |-> image]).image

fill(image, width, height, wf) ==
    LET holePixels == findHolePixels(image, width, height)
        env == [holePixels |-> holePixels,
                boundaryPixels |-> findBoundaryPixels(image, width, height, holePixels, TRUE)]
    IN FillLoop(width, wf, env, [k |-> 1, image |-> image]).image

\* -------------------------------------------------------- propagating filler
\* lines 134-147: the hole pixels that have a valid non-hole 8-neighbour, in order
HasValidNeighbor(image, width, height, isHoleMask, p) ==
    \E k \in 1..Len(Offsets8) :
        LET nx == p.x + Offsets8[k].x
            ny == p.y + Offsets8[k].y
        IN /\ InBounds(nx, ny, width, height)
           /\ ~isHoleMask[ny * width + nx]
           /\ FGe(image[ny * width + nx], FZero)

\* mutant of SeedQueue: the break after the push left out, a hole pixel is pushed once
\* for each of its valid neighbours
SeedQueueNoBreak(image, width, height, isHoleMask, holePixels) ==
    LET pairs == [t \in 1..(Len(holePixels) * Len(Offsets8)) |->
                     [p |-> holePixels[((t - 1) \div Len(Offsets8)) + 1],
                      off |-> Offsets8[((t - 1) % Len(Offsets8)) + 1]]]
        IsValid(pr) ==
            LET nx == pr.p.x + pr.off.x
                ny == pr.p.y + pr.off.y
            IN /\ InBounds(nx, ny, width, height)
               /\ ~isHoleMask[ny * width + nx]
               /\ FGe(image[ny * width + nx], FZero)
        pushed == SelectSeq(pairs, IsValid)
    IN [t \in 1..Len(pushed) |-> pushed[t].p]

\* mutant of SeedQueue: the valid-neighbour test left out, every hole pixel is pushed
SeedQueueAllHoles(image, width, height, isHoleMask, holePixels) == holePixels

SeedQueue(image, width, height, isHoleMask, holePixels) ==
    SelectSeq(holePixels, LAMBDA p : HasValidNeighbor(image, width, height, isHoleMask, p))

\* mutant of NeighborSum: ++count for every in-bounds neighbour, counted or not
RECURSIVE NeighborSumCountAll(_, _, _, _, _, _)
NeighborSumCountAll(image, width, height, isHoleMask, u, st) ==
    IF st.k > Len(Offsets8) THEN st
    ELSE LET nx == u.x + Offsets8[st.k].x
             ny == u.y + Offsets8[st.k].y
             inside == InBounds(nx, ny, width, height)
             counted == /\ inside
                        /\ ~isHoleMask[ny * width + nx]
                        /\ FGe(image[ny * width + nx], FZero)
         IN NeighborSumCountAll(image, width, height, isHoleMask, u,
                [k |-> st.k + 1,
                 sum |-> IF counted THEN FAdd(st.sum, image[ny * width + nx]) ELSE st.sum,
                 count |-> IF inside THEN st.count + 1 ELSE st.count])

\* lines 156-170: sum and count over the non-hole, non-negative 8-neighbours of u
RECURSIVE NeighborSum(_, _, _, _, _, _)
NeighborSum(image, width, height, isHoleMask, u, st) ==
    IF st.k > Len(Offsets8) THEN st
    ELSE LET nx == u.x + Offsets8[st.k].x
             ny == u.y + Offsets8[st.k].y
             counted == /\ InBounds(nx, ny, width, height)
                        /\ ~isHoleMask[ny * width + nx]
                        /\ FGe(image[ny * width + nx], FZero)
         IN NeighborSum(image, width, height, isHoleMask, u,
                [k |-> st.k + 1,
                 sum |-> IF counted THEN FAdd(st.sum, image[ny * width + nx]) ELSE st.sum,
                 count |-> IF counted THEN st.count + 1 ELSE st.count])

\* mutant of HoleNeighbors: the mask test inverted, the filled neighbours are pushed
HoleNeighborsInverted(width, height, isHoleMask, u) ==
    SelectSeq([k \in 1..Len(Offsets8) |-> Coord(u.x + Offsets8[k].x, u.y + Offsets8[k].y)],
              LAMBDA n : InBounds(n.x, n.y, width, height) /\ ~isHoleMask[n.y * width + n.x])

\* lines 176-186: the in-bounds 8-neighbours of u still marked as holes, in offset order
HoleNeighbors(width, height, isHoleMask, u) ==
    SelectSeq([k \in 1..Len(Offsets8) |-> Coord(u.x + Offsets8[k].x, u.y + Offsets8[k].y)],
              LAMBDA n : InBounds(n.x, n.y, width, height) /\ isHoleMask[n.y * width + n.x])

\* ------------------------------------------------- windowed fillApproximate
\* C++ integer division truncates toward zero
TruncDiv(a, b) == IF a >= 0 THEN a \div b ELSE -((-a) \div b)

\* the window loop, dy outer and dx inner, st.k counting the window's cells from 0
RECURSIVE WindowAccumulate(_, _, _, _, _, _, _)
WindowAccumulate(image, width, height, wf, halfWindow, u, st) ==
    LET side == 2 * halfWindow + 1 IN
    IF st.k >= side * side THEN st
    ELSE LET nx == u.x + (st.k % side) - halfWindow
             ny == u.y + (st.k \div side) - halfWindow
             valid == InBounds(nx, ny, width, height) /\ FGe(image[ny * width + nx], FZero)
             weight == weightFunc(wf, u, Coord(nx, ny))
         IN WindowAccumulate(image, width, height, wf, halfWindow, u,
                [k |-> st.k + 1,
                 numerator |-> IF valid
                               THEN FAdd(st.numerator, FMul(weight, image[ny * width + nx]))
                               ELSE st.numerator,
                 denominator |-> IF valid THEN FAdd(st.denominator, weight)
                                 ELSE st.denominator])

\* the loop over the hole pixels, each window read from the buffer st.image being written
RECURSIVE WindowLoop(_, _, _, _, _, _)
WindowLoop(width, height, wf, halfWindow, holePixels, st) ==
    IF st.k > Len(holePixels) THEN st
    ELSE LET u == holePixels[st.k]
         IN WindowLoop(width, height, wf, halfWindow, holePixels,
                [k |-> st.k + 1,
                 image |-> [st.image EXCEPT ![u.y * width + u.x] =
                     Quotient(WindowAccumulate(st.image, width, height, wf, halfWindow, u,
                                               [ZeroSums EXCEPT !.k = 0]))]])

fillApproximateWindowed(image, width, height, wf, windowSize) ==
    WindowLoop(width, height, wf, TruncDiv(windowSize, 2),
               findHolePixels(image, width, height), [k |-> 1, image |-> image]).image

\* ------------------------------------------------------ spatial-index filler
\* sumX += p.x; sumY += p.y over the hole pixels
RECURSIVE CenterSum(_, _)
CenterSum(holePixels, st) ==
    IF st.k > Len(holePixels) THEN st
    ELSE CenterSum(holePixels,
            [k |-> st.k + 1,
             sumX |-> FAdd(st.sumX, FromInt(holePixels[st.k].x)),
             sumY |-> FAdd(st.sumY, FromInt(holePixels[st.k].y))])

\* const float distSq = dx * dx + dy * dy
DistSqOf(dx, dy) == FAdd(FMul(dx, dx), FMul(dy, dy))

\* the largest squared distance from the centre to a hole pixel
RECURSIVE MaxDistSq(_, _, _, _)
MaxDistSq(holePixels, centerX, centerY, st) ==
    IF st.k > Len(holePixels) THEN st
    ELSE MaxDistSq(holePixels, centerX, centerY,
            [k |-> st.k + 1,
             maxDistSq |-> FMax(st.maxDistSq,
                                DistSqOf(FSub(FromInt(holePixels[st.k].x), centerX),
                                         FSub(FromInt(holePixels[st.k].y), centerY)))])

\* mutant of RadiusOf: the squared distance scaled, the square root left out
RadiusOfSquared(maxDistSq) == FMul(maxDistSq, FOneAndHalf)

\* info.radius = std::sqrt(maxDistSq) * 1.5f
RadiusOf(maxDistSq) == FMul(FSqrt(maxDistSq), FOneAndHalf)

\* the second loop and the radius, info.centerX and info.centerY being set
HoleInfoAround(holePixels, centerX, centerY) ==
    [centerX |-> centerX, centerY |-> centerY,
     radius |-> RadiusOf(MaxDistSq(holePixels, centerX, centerY,
                                   [k |-> 1, maxDistSq |-> FZero]).maxDistSq)]

\* info.centerX = sumX / holePixels.size(); info.centerY = sumY / holePixels.size();
\* and what follows
HoleInfoOfSums(holePixels, sum) ==
    HoleInfoAround(holePixels, FDiv(sum.sumX, FromInt(Len(holePixels))),
                               FDiv(sum.sumY, FromInt(Len(holePixels))))

\* the first loop, then the two divisions, the second loop and the radius
calculateHoleInfo(holePixels) ==
    HoleInfoOfSums(holePixels, CenterSum(holePixels, [k |-> 1, sumX |-> FZero, sumY |-> FZero]))

\* nanoflann L2_Simple_Adaptor, one dimension: result += diff * diff
AddSquare(result, diff) == FAdd(result, FMul(diff, diff))

\* nanoflann L2_Simple_Adaptor: squared Euclidean distance, accumulated in float
L2Distance(u, v) ==
    AddSquare(AddSquare(FZero, FSub(FromInt(u.x), FromInt(v.x))),
              FSub(FromInt(u.y), FromInt(v.y)))

\* std::sort of the matches by distance; nanoflann adds a leaf's points in index
\* order and the sort keeps equal distances in that order: item goes behind the
\* matches that are not farther, which are a prefix of the sorted matches
InsertByDistance(matches, item) ==
    LET n == Cardinality({j \in 1..Len(matches) : ~FLt(item.second, matches[j].second)})
    IN SubSeq(matches, 1, n) \o <<item>> \o SubSeq(matches, n + 1, Len(matches))

\* tree.radiusSearch(queryPt, search_radius_sq, matches): the ResultItems (first: index
\* into points, second: squared distance) of the points whose squared distance to u is
\* below radiusSq, nearest first
\* the point of index k, at squared distance dist, is a match if dist < radiusSq
AddMatch(matches, k, dist, radiusSq) ==
    IF FLt(dist, radiusSq)
    THEN InsertByDistance(matches, [first |-> k, second |-> dist])
    ELSE matches

RECURSIVE radiusSearch(_, _, _, _)
radiusSearch(points, u, radiusSq, st) ==
    IF st.k > Len(points) THEN st
    ELSE radiusSearch(points, u, radiusSq,
            [k |-> st.k + 1,
             matches |-> AddMatch(st.matches, st.k, L2Distance(u, points[st.k]), radiusSq)])

\* cloud.points[match.first] for every match of matches
PointsOf(points, matches) == [j \in 1..Len(matches) |-> points[matches[j].first]]

\* the points matched by the radius search around u
MatchedPoints(points, u, radiusSq) ==
    PointsOf(points, radiusSearch(points, u, radiusSq, [k |-> 1, matches |-> <<>>]).matches)

\* lines 223-244: the loop over the hole pixels, each filled from its matches; env
\* holds the locals set before the loop: holePixels, cloud.points as points, holeInfo
RECURSIVE SearchLoop(_, _, _, _)
SearchLoop(width, wf, env, st) ==
    IF st.k > Len(env.holePixels) THEN st
    ELSE LET u == env.holePixels[st.k]
             search_radius_sq == FMul(env.holeInfo.radius, env.holeInfo.radius)
         IN SearchLoop(width, wf, env,
                [k |-> st.k + 1,
                 image |-> [st.image EXCEPT ![u.y * width + u.x] =
                     Quotient(Accumulate(st.image, width, wf, u,
                                         MatchedPoints(env.points, u, search_radius_sq),
                                         ZeroSums))]])

fillExactWithSearch(image, width, height, wf) ==
    LET holePixels == findHolePixels(image, width, height)
        boundaryPixels == findBoundaryPixels(image, width, height, holePixels, TRUE)
        env == [holePixels |-> holePixels, points |-> boundaryPixels,
                holeInfo |-> calculateHoleInfo(holePixels)]
    IN SearchLoop(width, wf, env, [k |-> 1, image |-> image]).image

\* ------------------------------------ spatial-index filler, k-nearest overload
\* fillExactWithSearch(image, width, height, weightFunc, nearestNeighborMax) is declared
\* in holefill.h, lines 214-215, and documented there (lines 170-213); its body is not
\* part of the source tree. It is modelled from that documentation on the pattern of the
\* radius overload: the same hole and boundary vectors, the same KD-tree over the
\* boundary pixels, and per hole pixel the k nearest boundary pixels, nearest first, in
\* place of the radius matches; the weighted average and its fallback are unchanged.

\* the first n items of seq, all of them if there are fewer
Truncate(seq, n) == SubSeq(seq, 1, IF Len(seq) < n THEN Len(seq) ELSE n)

\* nanoflann KNNResultSet::addPoint with capacity num: the point of index k is put
\* behind the items that are not farther, and the item beyond the capacity is dropped;
\* the points of one leaf (up to 10, the leaf size of the radius overload) are added
\* in index order, so of two equally distant points the one of lower index is kept
AddNearest(matches, k, dist, num) ==
    Truncate(InsertByDistance(matches, [first |-> k, second |-> dist]), num)

\* tree.knnSearch(queryPt, num, indices, dists): the num points nearest to u, nearest
\* first (all the points if there are fewer than num)
RECURSIVE knnSearch(_, _, _, _)
knnSearch(points, u, num, st) ==
    IF st.k > Len(points) THEN st
    ELSE knnSearch(points, u, num,
            [k |-> st.k + 1,
             matches |-> AddNearest(st.matches, st.k, L2Distance(u, points[st.k]), num)])

\* the points found by the k-nearest search around u
NearestPoints(points, u, num) ==
    PointsOf(points, knnSearch(points, u, num, [k |-> 1, matches |-> <<>>]).matches)

\* the loop over the hole pixels, each filled from its nearestNeighborMax nearest
\* boundary pixels; env holds holePixels and cloud.points as points
RECURSIVE NearestLoop(_, _, _, _, _)
NearestLoop(width, wf, nearestNeighborMax, env, st) ==
    IF st.k > Len(env.holePixels) THEN st
    ELSE LET u == env.holePixels[st.k]
         IN NearestLoop(width, wf, nearestNeighborMax, env,
                [k |-> st.k + 1,
                 image |-> [st.image EXCEPT ![u.y * width + u.x] =
                     Quotient(Accumulate(st.image, width, wf, u,
                                         NearestPoints(env.points, u, nearestNeighborMax),
                                         ZeroSums))]])

fillExactWithSearchNearest(image, width, height, wf, nearestNeighborMax) ==
    LET holePixels == findHolePixels(image, width, height)
        env == [holePixels |-> holePixels,
                points |-> findBoundaryPixels(image, width, height, holePixels, TRUE)]
    IN NearestLoop(width, wf, nearestNeighborMax, env, [k |-> 1, image |-> image]).image

\* ------------------------------------------------------------------ state
VARIABLES
    width,      \* int32_t width
    height,     \* int32_t height
    image,      \* float* image: [0..width*height-1 -> float], row-major
    image0,     \* the buffer as the caller passed it
    call,       \* the filler called and its arguments
    pc,         \* "idle": before the call; "loop": in fillApproximate's while loop;
                \* "done": the call has returned; "twice": two runs of fill are
                \* under way or have returned
    isHole,     \* fillApproximate's hole mask, indexed y * width + x
    toProcess,  \* fillApproximate's queue
    pushes,     \* history: the number of toProcess.push calls so far
    pops,       \* history: the number of toProcess.pop calls so far
    written,    \* history: the coordinates fillApproximate has written, in order
    found,      \* a findBoundaryPixels call: its arguments and the vector it returned
    runs        \* two runs of fill, each on its own copy of the caller's buffer

vars == <<width, height, image, image0, call, pc, isHole, toProcess,
          pushes, pops, written, found, runs>>

\* the valid intensities of the input buffers, by cell index:
\*   "ones"    every valid cell 1.0
\*   "halves"  every valid cell 0.5
\*   "tenths"  every valid cell 0.1f
\*   "ramp"    cell i holds (i + 1) * 0.1f, all distinct
Patterns == {"ones", "halves", "tenths", "ramp"}

PatternValue(pattern, i) ==
    CASE pattern = "ones" -> FOne
      [] pattern = "halves" -> FDiv(FOne, FromInt(2))
      [] pattern = "tenths" -> FTenth
      [] pattern = "ramp" -> FMul(FromInt(i + 1), FTenth)

\* a buffer whose cells in holes are -1.0 and whose other cells follow pattern
InputImage(n, holes, pattern) ==
    [i \in 0..(n - 1) |-> IF i \in holes THEN FHole ELSE PatternValue(pattern, i)]

\* the nearestNeighborMax arguments drawn: the nearest boundary pixel alone, a few of
\* them, and as many as a buffer of MaxCells cells can have
NearestNeighborMaxes == {1, 3, MaxCells - 1}

\* the windowSize arguments drawn: the header's default -1, a 3x3 and a 5x5 window
WindowSizes == {-1, 3, 5}

NoCall == [fn |-> "none", wf |-> "none", windowSize |-> 0, nearestNeighborMax |-> 0]

\* no run of fill under way; sums: numerator and denominator (and the inner loop's
\* index) as the latest iteration of either run left them
NoRuns == [of |-> <<>>, sums |-> ZeroSums]

\* no findBoundaryPixels call made
NotFound == [holePixels |-> <<>>, use8Connectivity |-> TRUE, boundaryPixels |-> <<>>]

\* the hole lists findBoundaryPixels is called with: the list findHolePixels returns,
\* as the fillers pass it, every list of one in-bounds coordinate, and the list of
\* all coordinates in row-major order
HoleArguments(img, w, h) ==
    {findHolePixels(img, w, h)}
        \cup {<< Coord(i % w, i \div w) >> : i \in 0..(w * h - 1)}
        \cup {[i \in 1..(w * h) |-> Coord((i - 1) % w, (i - 1) \div w)]}

Init ==
    /\ width \in 1..MaxWidth
    /\ height \in 1..MaxHeight
    /\ width * height <= MaxCells
    /\ \E holes \in SUBSET (0..(width * height - 1)), pattern \in Patterns :
          image = InputImage(width * height, holes, pattern)
    /\ image0 = image
    /\ call = NoCall
    /\ pc = "idle"
    /\ isHole = [i \in 0..(width * height - 1) |-> FALSE]
    /\ toProcess = <<>>
    /\ pushes = 0
    /\ pops = 0
    /\ written = <<>>
    /\ found = NotFound
    /\ runs = NoRuns

\* fill(image, width, height, weightFunc)
CallFill ==
    /\ pc = "idle"
    /\ \E wf \in WeightFunctions :
          /\ image' = fill(image, width, height, wf)
          /\ call' = [fn |-> "fill", wf |-> wf, windowSize |-> 0, nearestNeighborMax |-> 0]
    /\ pc' = "done"
    /\ UNCHANGED <<width, height, image0, isHole, toProcess, pushes, pops, written, found, runs>>

\* fillExactWithSearch(image, width, height, weightFunc)
CallFillExactWithSearch ==
    /\ pc = "idle"
    /\ \E wf \in WeightFunctions :
          /\ image' = fillExactWithSearch(image, width, height, wf)
          /\ call' = [fn |-> "fillExactWithSearch", wf |-> wf, windowSize |-> 0, nearestNeighborMax |-> 0]
    /\ pc' = "done"
    /\ UNCHANGED <<width, height, image0, isHole, toProcess, pushes, pops, written, found, runs>>

\* fillExactWithSearch(image, width, height, weightFunc, nearestNeighborMax)
CallFillExactWithSearchNearest ==
    /\ pc = "idle"
    /\ \E wf \in WeightFunctions, nearestNeighborMax \in NearestNeighborMaxes :
          /\ image' = fillExactWithSearchNearest(image, width, height, wf,
                                                 nearestNeighborMax)
          /\ call' = [fn |-> "fillExactWithSearchNearest", wf |-> wf, windowSize |-> 0,
                      nearestNeighborMax |-> nearestNeighborMax]
    /\ pc' = "done"
    /\ UNCHANGED <<width, height, image0, isHole, toProcess, pushes, pops, written, found, runs>>

\* fillApproximate(image, width, height, weightFunc, windowSize)
CallFillApproximateWindowed ==
    /\ pc = "idle"
    /\ \E wf \in WeightFunctions, windowSize \in WindowSizes :
          /\ image' = fillApproximateWindowed(image, width, height, wf, windowSize)
          /\ call' = [fn |-> "fillApproximateWindowed", wf |-> wf, windowSize |-> windowSize,
                      nearestNeighborMax |-> 0]
    /\ pc' = "done"
    /\ UNCHANGED <<width, height, image0, isHole, toProcess, pushes, pops, written, found, runs>>

\* fill, lines 98-99: the locals of a run of fill on the buffer img when it reaches
\* its loop over the hole pixels, k the index of the next hole pixel
FillEntry(img, w, h) ==
    LET holePixels == findHolePixels(img, w, h)
    IN [image |-> img, k |-> 1, holePixels |-> holePixels,
        boundaryPixels |-> findBoundaryPixels(img, w, h, holePixels, TRUE)]

\* fill, lines 101-115: one iteration of the loop over the hole pixels in the run with
\* locals run, nd the sums its inner loop ended with
FillIteration(run, w, nd) ==
    [run EXCEPT !.k = run.k + 1,
                !.image = [run.image EXCEPT ![run.holePixels[run.k].y * w + run.holePixels[run.k].x] =
                               Quotient(nd)]]

\* the caller copies its buffer twice and calls fill(copy, width, height, weightFunc)
\* on each copy with the same weightFunc; both runs reach their loops
CallFillTwice ==
    /\ pc = "idle"
    /\ \E wf \in WeightFunctions :
          call' = [fn |-> "fill", wf |-> wf, windowSize |-> 0, nearestNeighborMax |-> 0]
    /\ runs' = [of |-> << FillEntry(image, width, height), FillEntry(image, width, height) >>,
                sums |-> ZeroSums]
    /\ pc' = "twice"
    /\ UNCHANGED <<width, height, image, image0, isHole, toProcess, pushes, pops, written, found>>

\* mutant of RunFillStep: numerator and denominator are static and never reset, an
\* iteration adds to the sums the latest iteration of either run left
RunFillStepStaticSums(r) ==
    /\ pc = "twice"
    /\ runs.of[r].k <= Len(runs.of[r].holePixels)
    /\ \E nd \in {Accumulate(runs.of[r].image, width, call.wf,
                              runs.of[r].holePixels[runs.of[r].k],
                              runs.of[r].boundaryPixels, [runs.sums EXCEPT !.k = 1])} :
          runs' = [of |-> [runs.of EXCEPT ![r] = FillIteration(runs.of[r], width, nd)],
                   sums |-> nd]
    /\ UNCHANGED <<width, height, image, image0, call, pc, isHole, toProcess,
                   pushes, pops, written, found>>

\* run r of the two executes one iteration of its loop over the hole pixels, lines
\* 101-115, on its own buffer and with its own locals, in any interleaving with the
\* other run; a run whose k has passed the last hole pixel has returned
RunFillStep(r) ==
    /\ pc = "twice"
    /\ runs.of[r].k <= Len(runs.of[r].holePixels)
    /\ \E nd \in {Accumulate(runs.of[r].image, width, call.wf,
                              runs.of[r].holePixels[runs.of[r].k],
                              runs.of[r].boundaryPixels, ZeroSums)} :
          runs' = [of |-> [runs.of EXCEPT ![r] = FillIteration(runs.of[r], width, nd)],
                   sums |-> nd]
    /\ UNCHANGED <<width, height, image, image0, call, pc, isHole, toProcess,
                   pushes, pops, written, found>>

\* findBoundaryPixels(image, width, height, holePixels, use8Connectivity)
CallFindBoundaryPixels ==
    /\ pc = "idle"
    /\ \E holePixels \in HoleArguments(image, width, height), use8Connectivity \in BOOLEAN :
          found' = [holePixels |-> holePixels,
                    use8Connectivity |-> use8Connectivity,
                    boundaryPixels |-> findBoundaryPixels(image, width, height,
                                                          holePixels, use8Connectivity)]
    /\ call' = [fn |-> "findBoundaryPixels", wf |-> "none", windowSize |-> 0, nearestNeighborMax |-> 0]
    /\ pc' = "done"
    /\ UNCHANGED <<width, height, image, image0, isHole, toProcess,
                   pushes, pops, written, runs>>

\* fillApproximate(image, width, height), lines 118-147: hole mask and seeding
ApproximateBegin ==
    /\ pc = "idle"
    /\ LET holePixels == findHolePixels(image, width, height)
           mask == [i \in 0..(width * height - 1) |->
                        Coord(i % width, i \div width) \in SeqRange(holePixels)]
       IN /\ isHole' = mask
          /\ toProcess' = SeedQueue(image, width, height, mask, holePixels)
          /\ pushes' = Len(SeedQueue(image, width, height, mask, holePixels))
    /\ call' = [fn |-> "fillApproximate", wf |-> "none", windowSize |-> 0, nearestNeighborMax |-> 0]
    /\ pc' = "loop"
    /\ UNCHANGED <<width, height, image, image0, pops, written, found, runs>>

\* mutant of ApproximateStep: the isHole test at dequeue left out, a coordinate that is
\* already filled is averaged and written again
ApproximateStepRefill ==
    /\ pc = "loop"
    /\ toProcess # <<>>
    /\ LET u == Head(toProcess)
           sc == NeighborSum(image, width, height, isHole, u, [k |-> 1, sum |-> FZero, count |-> 0])
           filled == [isHole EXCEPT ![u.y * width + u.x] = FALSE]
       IN IF sc.count = 0
          THEN /\ toProcess' = Tail(toProcess)
               /\ UNCHANGED <<image, isHole, pushes, written>>
          ELSE /\ image' = [image EXCEPT ![u.y * width + u.x] = FDiv(sc.sum, FromInt(sc.count))]
               /\ isHole' = filled
               /\ toProcess' = Tail(toProcess) \o HoleNeighbors(width, height, filled, u)
               /\ pushes' = pushes + Len(HoleNeighbors(width, height, filled, u))
               /\ written' = Append(written, u)
    /\ pops' = pops + 1
    /\ UNCHANGED <<width, height, image0, call, pc, found, runs>>

\* mutant of ApproximateStep: isHole is not cleared after the write, the coordinate
\* stays marked as a hole and its neighbours push it again
ApproximateStepNoMark ==
    /\ pc = "loop"
    /\ toProcess # <<>>
    /\ LET u == Head(toProcess)
           sc == NeighborSum(image, width, height, isHole, u, [k |-> 1, sum |-> FZero, count |-> 0])
       IN IF ~isHole[u.y * width + u.x] \/ sc.count = 0
          THEN /\ toProcess' = Tail(toProcess)
               /\ UNCHANGED <<image, isHole, pushes, written>>
          ELSE /\ image' = [image EXCEPT ![u.y * width + u.x] = FDiv(sc.sum, FromInt(sc.count))]
               /\ isHole' = isHole
               /\ toProcess' = Tail(toProcess) \o HoleNeighbors(width, height, isHole, u)
               /\ pushes' = pushes + Len(HoleNeighbors(width, height, isHole, u))
               /\ written' = Append(written, u)
    /\ pops' = pops + 1
    /\ UNCHANGED <<width, height, image0, call, pc, found, runs>>

\* mutant of ApproximateStep: the container is a stack, the coordinate pushed last is
\* processed first
ApproximateStepLifo ==
    /\ pc = "loop"
    /\ toProcess # <<>>
    /\ LET u == toProcess[Len(toProcess)]
           rest == SubSeq(toProcess, 1, Len(toProcess) - 1)
           sc == NeighborSum(image, width, height, isHole, u, [k |-> 1, sum |-> FZero, count |-> 0])
           filled == [isHole EXCEPT ![u.y * width + u.x] = FALSE]
       IN IF ~isHole[u.y * width + u.x] \/ sc.count = 0
          THEN /\ toProcess' = rest
               /\ UNCHANGED <<image, isHole, pushes, written>>
          ELSE /\ image' = [image EXCEPT ![u.y * width + u.x] = FDiv(sc.sum, FromInt(sc.count))]
               /\ isHole' = filled
               /\ toProcess' = rest \o HoleNeighbors(width, height, filled, u)
               /\ pushes' = pushes + Len(HoleNeighbors(width, height, filled, u))
               /\ written' = Append(written, u)
    /\ pops' = pops + 1
    /\ UNCHANGED <<width, height, image0, call, pc, found, runs>>

\* lines 150-187: one iteration of the while loop
ApproximateStep ==
    /\ pc = "loop"
    /\ toProcess # <<>>
    /\ LET u == Head(toProcess)
           sc == NeighborSum(image, width, height, isHole, u, [k |-> 1, sum |-> FZero, count |-> 0])
           filled == [isHole EXCEPT ![u.y * width + u.x] = FALSE]
       IN IF ~isHole[u.y * width + u.x] \/ sc.count = 0
          THEN /\ toProcess' = Tail(toProcess)
               /\ UNCHANGED <<image, isHole, pushes, written>>
          ELSE /\ image' = [image EXCEPT ![u.y * width + u.x] = FDiv(sc.sum, FromInt(sc.count))]
               /\ isHole' = filled
               /\ toProcess' = Tail(toProcess) \o HoleNeighbors(width, height, filled, u)
               /\ pushes' = pushes + Len(HoleNeighbors(width, height, filled, u))
               /\ written' = Append(written, u)
    /\ pops' = pops + 1
    /\ UNCHANGED <<width, height, image0, call, pc, found, runs>>

\* line 150: the queue is empty, fillApproximate returns
ApproximateReturn ==
    /\ pc = "loop"
    /\ toProcess = <<>>
    /\ pc' = "done"
    /\ UNCHANGED <<width, height, image, image0, call, isHole, toProcess,
                   pushes, pops, written, found, runs>>

Next ==
    \/ CallFill
    \/ CallFindBoundaryPixels
    \/ CallFillExactWithSearch
    \/ CallFillExactWithSearchNearest
    \/ CallFillApproximateWindowed
    \/ ApproximateBegin
    \/ ApproximateStep
    \/ ApproximateReturn

\* every operation, called once
Spec == Init /\ [][Next]_vars

\* the exhaustive filler alone
SpecFill == Init /\ [][CallFill]_vars

\* the radius overload of the spatial-index filler alone
SpecSearch == Init /\ [][CallFillExactWithSearch]_vars

\* the k-nearest overload of the spatial-index filler alone
SpecNearest == Init /\ [][CallFillExactWithSearchNearest]_vars

\* the exhaustive and the spatial-index filler, both overloads
NextExact ==
    \/ CallFill
    \/ CallFillExactWithSearch
    \/ CallFillExactWithSearchNearest

SpecExact == Init /\ [][NextExact]_vars

\* two runs of the exhaustive filler on identical buffers, interleaved in every way
NextFillTwice ==
    \/ CallFillTwice
    \/ \E r \in 1..2 : RunFillStep(r)

SpecFillTwice == Init /\ [][NextFillTwice]_vars

\* boundary detection alone
SpecBoundary == Init /\ [][CallFindBoundaryPixels]_vars

\* the windowed filler alone
SpecWindowed == Init /\ [][CallFillApproximateWindowed]_vars

\* the propagating filler alone
NextApproximate ==
    \/ ApproximateBegin
    \/ ApproximateStep
    \/ ApproximateReturn

SpecApproximate == Init /\ [][NextApproximate]_vars

\* the propagating filler, run to completion: the call is made and the thread that runs
\* it keeps taking steps. The last conjunct is WF_vars(ApproximateStep) with
\* ENABLED <<ApproximateStep>>_vars written out: the step is possible exactly when the
\* loop is running on a non-empty queue, and it always pops, so it always changes vars.
SpecApproximateLive ==
    /\ SpecApproximate
    /\ WF_vars(ApproximateBegin)
    /\ WF_vars(ApproximateReturn)
    /\ \/ []<>(~(pc = "loop" /\ toProcess # <<>>))
       \/ []<><<ApproximateStep>>_vars

\* ------------------------------------------------------- shared vocabulary
Cells == 0..(width * height - 1)
CoordOf(i) == Coord(i % width, i \div width)
IndexOf(p) == p.y * width + p.x

\* the hole set, the valid cells and the boundary sequence of the buffer at entry
HoleCells0 == {i \in Cells : FLt(image0[i], FZero)}
ValidCells0 == {i \in Cells : FGe(image0[i], FZero)}
HolePixels0 == findHolePixels(image0, width, height)
BoundaryPixels0 == findBoundaryPixels(image0, width, height, HolePixels0, TRUE)

Returned(fn) == pc = "done" /\ call.fn = fn

\* the in-bounds 8-connected neighbours of cell i
Neighbors8(i) ==
    {j \in Cells : j # i /\ (j % width) - (i % width) \in -1..1
                         /\ (j \div width) - (i \div width) \in -1..1}

\* ------------------------------------------------------------------ claims
\* C1: non-destructiveness. In every state of every filler, every cell whose value
\* was >= 0 at entry still holds its entry value: only cells that were negative at
\* entry are ever written.
C1_NonDestructive == \A i \in Cells : FGe(image0[i], FZero) => image[i] = image0[i]

\* a filler has returned after writing at least two holes beside at least two valid cells
C1_Witness ==
    /\ pc = "done"
    /\ Cardinality(ValidCells0) >= 2
    /\ Cardinality({i \in HoleCells0 : image[i] # image0[i]}) >= 2

\* C2: full coverage of the queue-based fillApproximate. When it returns, no cell is
\* negative if some cell was >= 0 at entry; if every cell was negative at entry, the
\* buffer is exactly the buffer at entry.
C2_FullCoverage ==
    Returned("fillApproximate") =>
        IF ValidCells0 # {} THEN \A i \in Cells : FGe(image[i], FZero)
        ELSE image = image0

\* fillApproximate has returned on a 3x3 buffer whose holes were the four corners,
\* four disconnected one-pixel blobs
C2_Witness ==
    /\ Returned("fillApproximate")
    /\ width = 3 /\ height = 3
    /\ HoleCells0 = {0, 2, 6, 8}

\* C3: fallback on an all-hole image. When every cell is negative at entry, the
\* boundary set is empty, the radius query and the k-nearest query of every hole pixel
\* over the empty index match nothing, and fill and fillExactWithSearch (either
\* overload) each return with every cell exactly 0.0.
C3_AllHoleFallback ==
    (pc = "done"
        /\ call.fn \in {"fill", "fillExactWithSearch", "fillExactWithSearchNearest"}
        /\ ValidCells0 = {}) =>
        LET boundary == BoundaryPixels0
            radius == calculateHoleInfo(HolePixels0).radius
        IN /\ boundary = <<>>
           /\ \A i \in Cells :
                 MatchedPoints(boundary, CoordOf(i), FMul(radius, radius)) = <<>>
           /\ \A i \in Cells, num \in NearestNeighborMaxes :
                 NearestPoints(boundary, CoordOf(i), num) = <<>>
           /\ \A i \in Cells : image[i] = FZero

\* fillExactWithSearch has returned on an all-hole buffer of at least four cells
C3_Witness ==
    /\ Returned("fillExactWithSearch")
    /\ ValidCells0 = {}
    /\ width * height >= 4

\* the sum of the first n of a sequence of floats, accumulated from 0.0f in order
RECURSIVE FSum(_, _)
FSum(sq, n) == IF n = 0 THEN FZero ELSE FAdd(FSum(sq, n - 1), sq[n])

\* sum over all coordinates v of boundary of w(u,v) * value(v), and of w(u,v), on the
\* buffer at entry
C4_Numerator(u, boundary) ==
    FSum([k \in 1..Len(boundary) |->
            FMul(weightFunc(call.wf, u, boundary[k]), image0[IndexOf(boundary[k])])],
         Len(boundary))
C4_Denominator(u, boundary) ==
    FSum([k \in 1..Len(boundary) |-> weightFunc(call.wf, u, boundary[k])], Len(boundary))

\* numerator / denominator if the denominator exceeds the epsilon, else 0.0
C4_Expected(u, boundary) ==
    LET denominator == C4_Denominator(u, boundary)
    IN IF FGt(denominator, FEpsilon) THEN FDiv(C4_Numerator(u, boundary), denominator)
       ELSE FZero

\* a single hole, not on the border, whose 8 neighbours are all 1.0, filled with weight 1
C4_HandComputedCase(i) ==
    /\ HoleCells0 = {i}
    /\ Cardinality(Neighbors8(i)) = 8
    /\ \A j \in Neighbors8(i) : image0[j] = FOne
    /\ call.wf = "one"

\* C4: exhaustive filler result. After fill, every cell u that was a hole at entry
\* holds numerator / denominator over all boundary coordinates, with the values and
\* the boundary set of the buffer at entry, if the denominator exceeds the epsilon,
\* and 0.0 otherwise; a single hole whose 8 neighbours are all 1.0 under the constant
\* weight 1 holds exactly 1.0.
C4_ExhaustiveResult ==
    Returned("fill") =>
        LET boundary == BoundaryPixels0
        IN \A i \in HoleCells0 :
              /\ image[i] = C4_Expected(CoordOf(i), boundary)
              /\ C4_HandComputedCase(i) => image[i] = FOne

\* fill has returned on the hand-computed case
C4_Witness == Returned("fill") /\ \E i \in Cells : C4_HandComputedCase(i)

\* every valid cell of the buffer at entry holds the same value
IsUniform0 == Cardinality({image0[i] : i \in ValidCells0}) = 1
UniformValue0 == CHOOSE c \in {image0[i] : i \in ValidCells0} : TRUE

\* c is 0.0 or a power of two: multiplying by c is exact and commutes with rounding
IsPowerOfTwo(c) == c.m = 0 \/ c.m = MantMin

\* C5 as stated: if every valid cell holds c and the boundary set is non-empty, fill
\* sets every hole cell to exactly c for any non-negative weight function, also one
\* returning 0 for some or all pairs.
C5_UniformAnyWeight ==
    (Returned("fill") /\ IsUniform0 /\ BoundaryPixels0 # <<>>) =>
        \A i \in HoleCells0 : image[i] = UniformValue0

\* C5 amended: if every valid cell holds c, c being 0.0 or a power of two, and the
\* boundary set is non-empty, fill sets every hole cell whose weight sum exceeds the
\* epsilon to exactly c, and every hole cell whose weight sum does not to 0.0.
C5_UniformExactWeights ==
    (Returned("fill") /\ IsUniform0 /\ IsPowerOfTwo(UniformValue0)) =>
        LET boundary == BoundaryPixels0
        IN boundary # <<>> =>
              \A i \in HoleCells0 :
                  image[i] = IF FGt(C4_Denominator(CoordOf(i), boundary), FEpsilon)
                             THEN UniformValue0 ELSE FZero

\* fill has returned on a uniform buffer of 0.5 with the inverse-square weights: a
\* hole with at least five boundary pixels holds 0.5, and with the axis weights a
\* hole with no boundary pixel in its row or column would hold 0.0
C5_Witness ==
    /\ Returned("fill") /\ call.wf = "invsq"
    /\ IsUniform0 /\ UniformValue0 = PatternValue("halves", 0)
    /\ Len(BoundaryPixels0) >= 5
    /\ Cardinality(HoleCells0) >= 2
    /\ \A i \in HoleCells0 : image[i] = UniformValue0

\* C6 as stated: if every valid cell holds c and the boundary set is non-empty,
\* fillExactWithSearch sets every hole cell to exactly c, for every hole shape and any
\* strictly positive weight function.
C6_UniformSearch ==
    (Returned("fillExactWithSearch") /\ call.wf \in {"one", "invsq"}
        /\ IsUniform0 /\ BoundaryPixels0 # <<>>) =>
        \A i \in HoleCells0 : image[i] = UniformValue0

\* c has at most 21 significant bits: the float sum of up to eight copies is exact
HasThreeSpareBits(c) == c.m % 8 = 0

\* C7 as stated: if every valid cell holds c and a valid cell exists, the queue-based
\* fillApproximate sets every hole cell to exactly c.
C7_UniformApproximate ==
    (Returned("fillApproximate") /\ IsUniform0) =>
        \A i \in HoleCells0 : image[i] = UniformValue0

\* C7 amended: if every valid cell holds c, a valid cell exists and c has at most 21
\* significant bits, every cell the queue-based fillApproximate has written holds
\* exactly c, and on return every hole cell holds c.
C7_UniformExactSums ==
    (call.fn = "fillApproximate" /\ IsUniform0 /\ HasThreeSpareBits(UniformValue0)) =>
        \A i \in HoleCells0 :
            /\ image[i] \in {image0[i], UniformValue0}
            /\ pc = "done" => image[i] = UniformValue0

\* fillApproximate has returned on a 3x3 buffer of 0.5 with one valid cell, the
\* other eight filled by propagation
C7_Witness ==
    /\ Returned("fillApproximate")
    /\ width = 3 /\ height = 3
    /\ Cardinality(ValidCells0) = 1
    /\ UniformValue0 = PatternValue("halves", 0)
    /\ \A i \in Cells : image[i] = UniformValue0

\* the radius query of hole cell i, as fillExactWithSearch issues it on the buffer at entry
C8_Matches(i) ==
    LET radius == calculateHoleInfo(HolePixels0).radius
    IN MatchedPoints(BoundaryPixels0, CoordOf(i), FMul(radius, radius))

\* C8 as stated: the search radius is floored at a small positive value, and the
\* radius query of a hole pixel that has a boundary neighbour is never empty: a
\* single-pixel hole is filled from its matches, not with the 0.0 fallback.
C8_RadiusFloored ==
    (Returned("fillExactWithSearch") /\ HoleCells0 # {}) =>
        /\ FGt(calculateHoleInfo(HolePixels0).radius, FZero)
        /\ \A i \in HoleCells0 :
              (Neighbors8(i) \cap ValidCells0 # {}) => C8_Matches(i) # <<>>

\* floor(f * 2^bits) for a float f >= 0 below 2^(30 - bits)
FloorScaled(f, bits) ==
    IF f.m = 0 THEN 0
    ELSE IF f.e + bits >= 0 THEN f.m * 2^(f.e + bits)
    ELSE IF -(f.e + bits) > 30 THEN 0
    ELSE f.m \div 2^(-(f.e + bits))

\* n^2 times the squared Euclidean distance from the centroid of holes to p, exactly:
\* the centroid is (sx / n, sy / n)
C9_ScaledDistSq(holes, p) ==
    LET n == Len(holes)
        sx == FloorScaled(FSum([k \in 1..n |-> FromInt(holes[k].x)], n), 0)
        sy == FloorScaled(FSum([k \in 1..n |-> FromInt(holes[k].y)], n), 0)
    IN (n * p.x - sx) * (n * p.x - sx) + (n * p.y - sy) * (n * p.y - sy)

C9_MaxScaledDistSq(holes) ==
    LET ds == {C9_ScaledDistSq(holes, holes[k]) : k \in 1..Len(holes)}
    IN CHOOSE d \in ds : \A d2 \in ds : d2 <= d

\* the squared distance from the centre of info to p as calculateHoleInfo computes it
C9_FloatDistSq(info, p) ==
    LET dx == FSub(FromInt(p.x), info.centerX)
        dy == FSub(FromInt(p.y), info.centerY)
    IN FAdd(FMul(dx, dx), FMul(dy, dy))

\* C9: radius sufficiency. For every non-empty hole set the derived search radius is
\* at least the distance from the hole centroid to every hole coordinate, in float
\* (radius^2 >= squared distance) and exactly (with r8 = floor(256 * radius),
\* r8^2 * n^2 >= 2^16 * n^2 * dist^2), and it is 1.5 times the maximum distance:
\* 4 * radius^2 = 9 * maxdist^2 within the 1/256 resolution.
C9_RadiusSufficient ==
    LET holes == HolePixels0
        n == Len(holes)
        info == calculateHoleInfo(holes)
        r8 == FloorScaled(info.radius, 8)
        maxd == C9_MaxScaledDistSq(holes)
    IN n > 0 =>
         /\ \A k \in 1..n :
               /\ FGe(FMul(info.radius, info.radius), C9_FloatDistSq(info, holes[k]))
               /\ r8 * r8 * n * n >= 65536 * C9_ScaledDistSq(holes, holes[k])
         /\ 4 * r8 * r8 * n * n <= 9 * 65536 * maxd
         /\ 4 * (r8 + 1) * (r8 + 1) * n * n >= 9 * 65536 * maxd

\* fillExactWithSearch has returned on a 3x3 buffer whose holes were two opposite
\* corners, two disconnected blobs, with a positive radius
C9_Witness ==
    /\ Returned("fillExactWithSearch")
    /\ width = 3 /\ height = 3
    /\ HoleCells0 = {0, 8}
    /\ FGt(calculateHoleInfo(HolePixels0).radius, FOne)

\* C10 as stated: fillExactWithSearch leaves the buffer in the state fill leaves it
\* in on the same input, and the radius query of every hole pixel returns every
\* boundary coordinate.
C10_SearchEqualsFill ==
    Returned("fillExactWithSearch") =>
        /\ image = fill(image0, width, height, call.wf)
        /\ \A i \in HoleCells0 : SeqRange(C8_Matches(i)) = SeqRange(BoundaryPixels0)

\* the weighted mean of the window of hole cell i, every value read from the buffer
\* as it was at entry
C11_MeanOfOriginal(i) ==
    Quotient(WindowAccumulate(image0, width, height, call.wf, TruncDiv(call.windowSize, 2),
                              CoordOf(i), [ZeroSums EXCEPT !.k = 0]))

\* C11: the windowed fillApproximate reads only the original buffer. When it returns,
\* every cell that was a hole at entry holds the weighted mean of the cells of its
\* window that were valid at entry; cells that were holes at entry contribute to no
\* other cell's value, whether or not they have been written earlier in the call.
C11_ReadsOriginalOnly ==
    Returned("fillApproximateWindowed") =>
        \A i \in HoleCells0 : image[i] = C11_MeanOfOriginal(i)

\* the hole set and the boundary set of the findBoundaryPixels call
FoundHoles == SeqRange(found.holePixels)
FoundBoundary == SeqRange(found.boundaryPixels)

\* coordinates p and q are side by side, or corner to corner
Adjacent4(p, q) ==
    \/ p.x = q.x /\ (p.y - q.y) \in {-1, 1}
    \/ p.y = q.y /\ (p.x - q.x) \in {-1, 1}
AdjacentDiagonal(p, q) == (p.x - q.x) \in {-1, 1} /\ (p.y - q.y) \in {-1, 1}

\* cell i is valid, outside the hole set, and touches the hole set at corners only
C12_DiagonalOnly(i) ==
    /\ FGe(image[i], FZero)
    /\ CoordOf(i) \notin FoundHoles
    /\ \A q \in FoundHoles : ~Adjacent4(CoordOf(i), q)
    /\ \E q \in FoundHoles : AdjacentDiagonal(CoordOf(i), q)

\* C12: connectivity sensitivity of findBoundaryPixels. A valid cell outside the hole
\* set whose only adjacency to the hole set is diagonal is in the returned boundary
\* when use8Connectivity is true and absent from it when use8Connectivity is false.
C12_ConnectivitySensitive ==
    Returned("findBoundaryPixels") =>
        \A i \in Cells :
            C12_DiagonalOnly(i) => (CoordOf(i) \in FoundBoundary <=> found.use8Connectivity)

\* the 3x3 grid whose hole set is the centre, 4-connectivity: the four edge cells are
\* returned and the corner (0,0) is not
C12_Witness ==
    /\ Returned("findBoundaryPixels")
    /\ width = 3 /\ height = 3
    /\ HoleCells0 = {4}
    /\ found.holePixels = << Coord(1, 1) >>
    /\ ~found.use8Connectivity
    /\ C12_DiagonalOnly(0)
    /\ Coord(0, 0) \notin FoundBoundary
    /\ Cardinality(FoundBoundary) = 4

\* C14: hole set and boundary set are disjoint. For every buffer, hole list and
\* connectivity, no coordinate findBoundaryPixels returns is in the hole list passed
\* to it, and every returned coordinate holds a value >= 0.
C14_BoundaryDisjoint ==
    Returned("findBoundaryPixels") =>
        \A k \in 1..Len(found.boundaryPixels) :
            /\ found.boundaryPixels[k] \notin FoundHoles
            /\ FGe(image[IndexOf(found.boundaryPixels[k])], FZero)

\* a call whose hole list leaves out a negative cell next to it: the negative cell is
\* not in the list and is not returned, its valid neighbours are
C14_Witness ==
    /\ Returned("findBoundaryPixels")
    /\ Len(found.holePixels) = 1
    /\ found.boundaryPixels # <<>>
    /\ \E i \in Cells : /\ FLt(image[i], FZero)
                         /\ CoordOf(i) \notin FoundHoles
                         /\ \E q \in FoundHoles : Adjacent4(CoordOf(i), q)

\* the number of times coordinate p has been written by fillApproximate
TimesWritten(p) == Cardinality({k \in 1..Len(written) : written[k] = p})

\* the state of the cells while fillApproximate runs: a cell is marked as a hole exactly
\* when it was a hole at entry and has not been written, and no cell is written twice
C13_FilledIsTerminal ==
    \A i \in Cells :
        /\ TimesWritten(CoordOf(i)) <= 1
        /\ TimesWritten(CoordOf(i)) = 1 => i \in HoleCells0
        /\ isHole[i] <=> (i \in HoleCells0 /\ TimesWritten(CoordOf(i)) = 0)

\* a dequeue of a coordinate that is already filled pops it and changes nothing else
C13_DiscardStep ==
    (pc = "loop" /\ toProcess # <<>> /\ ~isHole[IndexOf(Head(toProcess))]) =>
        /\ toProcess' = Tail(toProcess)
        /\ UNCHANGED <<image, isHole, written, pushes, pc>>

\* C13: the queue-based fillApproximate processes each hole pixel exactly once. During
\* the call no cell is written twice and only cells still marked as holes are written;
\* when the call returns on an image with at least one valid cell, every hole cell has
\* been written exactly once; a dequeue of an already-filled coordinate is discarded.
C13_ExactlyOnce ==
    /\ [](call.fn = "fillApproximate" => C13_FilledIsTerminal)
    /\ []((Returned("fillApproximate") /\ ValidCells0 # {}) =>
              \A i \in HoleCells0 : TimesWritten(CoordOf(i)) = 1)
    /\ [][C13_DiscardStep]_vars

\* fillApproximate has returned after at least three writes and at least one discarded
\* dequeue of a coordinate that had been filled before
C13_Witness ==
    /\ Returned("fillApproximate")
    /\ ValidCells0 # {}
    /\ Len(written) >= 3
    /\ pops > Len(written)

\* run r of the two has returned
C15_RunReturned(r) == pc = "twice" /\ runs.of[r].k > Len(runs.of[r].holePixels)

\* the cells run r has written so far
C15_WrittenBy(r) ==
    {IndexOf(runs.of[r].holePixels[j]) : j \in 1..(runs.of[r].k - 1)}

C16_PushBound ==
    call.fn = "fillApproximate" =>
        LET h == Cardinality(HoleCells0)
        IN /\ pops = 0 => pushes <= h
           /\ pushes <= Len(SeedQueue(image0, width, height,
                                     [i \in Cells |-> i \in HoleCells0], HolePixels0))
                            + 8 * Len(written)
           /\ pushes <= h + 8 * h
           /\ Len(toProcess) = pushes - pops

\* C16: the processing loop of the queue-based fillApproximate terminates on every
\* input: once the loop is entered the queue eventually empties and the call returns,
\* and the number of pushes never exceeds h + 8 * h for h hole cells.
C16_Terminates ==
    /\ []C16_PushBound
    /\ (pc = "loop") ~> (pc = "done" /\ toProcess = <<>>)

\* the loop has ended after re-pushes: more coordinates were pushed than there are holes
C16_Witness ==
    /\ Returned("fillApproximate")
    /\ toProcess = <<>>
    /\ Cardinality(HoleCells0) >= 4
    /\ pushes > Cardinality(HoleCells0)
    /\ pops = pushes

\* the 8-connected (Chebyshev) distance between coordinates p and q
Chebyshev(p, q) ==
    LET dx == IF p.x >= q.x THEN p.x - q.x ELSE q.x - p.x
        dy == IF p.y >= q.y THEN p.y - q.y ELSE q.y - p.y
    IN IF dx >= dy THEN dx ELSE dy

\* the distance from coordinate p to the nearest cell that was valid at entry
DistanceToValid(p) ==
    CHOOSE d \in 0..(width + height) :
        /\ \E j \in ValidCells0 : Chebyshev(p, CoordOf(j)) = d
        /\ \A j \in ValidCells0 : Chebyshev(p, CoordOf(j)) >= d

\* C17: the queue-based fillApproximate fills from the boundary inward. The cells are
\* written in non-decreasing order of their Chebyshev distance to the nearest cell
\* valid at entry, and when a cell is written every hole cell nearer to a valid cell
\* has been written before it.
C17_InwardOrder ==
    (call.fn = "fillApproximate" /\ ValidCells0 # {}) =>
        \A b \in 1..Len(written) :
            /\ \A a \in 1..(b - 1) :
                   DistanceToValid(written[a]) <= DistanceToValid(written[b])
            /\ \A i \in HoleCells0 :
                   DistanceToValid(CoordOf(i)) < DistanceToValid(written[b]) =>
                       \E a \in 1..(b - 1) : written[a] = CoordOf(i)

\* a call that has written at least three cells next to a valid cell and then at least
\* two cells at distance 2
C17_Witness ==
    /\ Returned("fillApproximate")
    /\ ValidCells0 # {}
    /\ Cardinality({k \in 1..Len(written) : DistanceToValid(written[k]) = 1}) >= 3
    /\ Cardinality({k \in 1..Len(written) : DistanceToValid(written[k]) = 2}) >= 2

\* the in-bounds 8-connected neighbours of coordinate u, in the order the loop visits them
NeighborsInOrder(u) ==
    SelectSeq([k \in 1..Len(Offsets8) |-> Coord(u.x + Offsets8[k].x, u.y + Offsets8[k].y)],
              LAMBDA n : n.x \in 0..(width - 1) /\ n.y \in 0..(height - 1))

\* coordinate n was valid at entry or has been written earlier in the call
C18_ValidOrFilled(n) == IndexOf(n) \in ValidCells0 \/ TimesWritten(n) > 0

\* the step that dequeues a still-unfilled coordinate u that has a neighbour valid at
\* entry or filled: u is set to the sum of the current values of those neighbours
\* divided by their number, nothing else is written, u is popped and its in-bounds
\* neighbours that are still unfilled are pushed, each once
C18_WriteStep ==
    LET u == Head(toProcess)
        sources == SelectSeq(NeighborsInOrder(u), C18_ValidOrFilled)
        values == [k \in 1..Len(sources) |-> image[IndexOf(sources[k])]]
        unfilled == {n \in SeqRange(NeighborsInOrder(u)) : ~C18_ValidOrFilled(n)}
        pushed == SubSeq(toProcess', Len(toProcess), Len(toProcess'))
    IN (pc = "loop" /\ toProcess # <<>> /\ isHole[IndexOf(u)] /\ sources # <<>>) =>
           /\ image' = [image EXCEPT ![IndexOf(u)] = FDiv(FSum(values, Len(values)), FromInt(Len(sources)))]
           /\ SubSeq(toProcess', 1, Len(toProcess) - 1) = Tail(toProcess)
           /\ SeqRange(pushed) = unfilled
           /\ Len(pushed) = Cardinality(unfilled)

\* C18: value written by the queue-based fillApproximate. A dequeued, still-unfilled
\* coordinate is set to the arithmetic mean of the current values of exactly its
\* in-bounds 8-connected neighbours that were valid at entry or have been filled
\* earlier in the call, and after the write each of its in-bounds neighbours that is
\* still unfilled is pushed.
C18_MeanOfValidOrFilled == [][C18_WriteStep]_vars

\* just after a write to an edge or corner cell that had a neighbour valid at entry, a
\* neighbour filled earlier and a neighbour still unfilled, which is now in the queue
C18_Witness ==
    /\ pc = "loop"
    /\ written # <<>>
    /\ LET u == written[Len(written)]
           near == SeqRange(NeighborsInOrder(u))
       IN /\ Cardinality(near) < 8
          /\ \E n \in near : IndexOf(n) \in ValidCells0
          /\ \E n \in near : TimesWritten(n) > 0
          /\ \E n \in near : isHole[IndexOf(n)] /\ n = toProcess[Len(toProcess)]

\* the hole cells at entry that have an in-bounds 8-connected neighbour that is not a
\* hole and holds a value >= 0, as coordinates in row-major order (y outer, x inner)
C19_ExpectedSeeds ==
    SelectSeq([k \in 1..(width * height) |-> CoordOf(k - 1)],
              LAMBDA p : /\ IndexOf(p) \in HoleCells0
                         /\ \E j \in Neighbors8(IndexOf(p)) : j \in ValidCells0)

\* C19: seeding of the queue-based fillApproximate. Before the first iteration of the
\* processing loop the queue holds exactly the hole coordinates that have at least one
\* in-bounds 8-connected valid neighbour, each once, in row-major detection order.
C19_Seeding ==
    (pc = "loop" /\ pops = 0) =>
        /\ toProcess = C19_ExpectedSeeds
        /\ pushes = Len(toProcess)
        /\ image = image0

\* the loop is about to start on a 3x3 buffer with at least three seeds, one of them
\* with two or more valid neighbours, and a hole cell that is not seeded
C19_Witness ==
    /\ pc = "loop" /\ pops = 0
    /\ width = 3 /\ height = 3
    /\ Len(toProcess) >= 3
    /\ \E i \in HoleCells0 : CoordOf(i) \notin SeqRange(toProcess)
    /\ \E i \in HoleCells0 : Cardinality(Neighbors8(i) \cap ValidCells0) >= 2

\* coordinate p touches a coordinate of the hole set under the connectivity of the call
C20_TouchesHole(p) ==
    \E q \in FoundHoles :
        Adjacent4(p, q) \/ (found.use8Connectivity /\ AdjacentDiagonal(p, q))

\* C20: boundary set characterisation. findBoundaryPixels returns, without duplicates,
\* exactly the in-bounds coordinates that are not in the hole set, hold a value >= 0
\* and are adjacent under the chosen connectivity to at least one hole coordinate.
C20_BoundaryExact ==
    Returned("findBoundaryPixels") =>
        /\ Cardinality(FoundBoundary) = Len(found.boundaryPixels)
        /\ FoundBoundary = {CoordOf(i) : i \in {j \in Cells :
                                /\ CoordOf(j) \notin FoundHoles
                                /\ FGe(image[j], FZero)
                                /\ C20_TouchesHole(CoordOf(j))}}

\* a 4-connectivity call on the detected holes of a 3x3 buffer where a returned cell
\* touches two hole pixels and a valid cell touching the holes only at a corner is left out
C20_Witness ==
    /\ Returned("findBoundaryPixels")
    /\ width = 3 /\ height = 3
    /\ ~found.use8Connectivity
    /\ found.holePixels = HolePixels0
    /\ \E p \in FoundBoundary :
           Cardinality({q \in FoundHoles : Adjacent4(p, q)}) >= 2
    /\ \E i \in ValidCells0 : C12_DiagonalOnly(i) /\ CoordOf(i) \notin FoundBoundary

\* coordinate p has an in-bounds 8-connected neighbour that the loop counts: not marked
\* as a hole, holding a value >= 0, and valid at entry or written earlier in the call
C21_HasQualifyingNeighbor(p) ==
    \E j \in Neighbors8(IndexOf(p)) :
        /\ ~isHole[j]
        /\ FGe(image[j], FZero)
        /\ j \in ValidCells0 \/ TimesWritten(CoordOf(j)) > 0

\* every coordinate in the queue is an in-bounds cell of the hole set at entry with a
\* neighbour the loop counts
C21_QueueQualifies ==
    \A k \in 1..Len(toProcess) :
        /\ InBounds(toProcess[k].x, toProcess[k].y, width, height)
        /\ IndexOf(toProcess[k]) \in HoleCells0
        /\ C21_HasQualifyingNeighbor(toProcess[k])

\* while the loop runs, every cell still marked as a hole that touches a cell not
\* marked as a hole is waiting in the queue
C21_NoneStarved ==
    pc = "loop" =>
        \A i \in Cells :
            (isHole[i] /\ \E j \in Neighbors8(i) : ~isHole[j]) =>
                CoordOf(i) \in SeqRange(toProcess)

\* the step that dequeues a still-unfilled coordinate fills it
C21_FillStep ==
    (pc = "loop" /\ toProcess # <<>> /\ isHole[IndexOf(Head(toProcess))]) =>
        /\ written' = Append(written, Head(toProcess))
        /\ ~isHole'[IndexOf(Head(toProcess))]
        /\ FGe(image'[IndexOf(Head(toProcess))], FZero)

\* C21: the drop on zero qualifying neighbours never happens in the queue-based
\* fillApproximate. Every queued coordinate is an in-bounds entry hole with a neighbour
\* that is valid at entry or already filled, every still-unfilled coordinate that is
\* dequeued is filled, and no unfilled cell next to a filled or valid cell is left
\* out of the queue.
C21_DropNeverHappens ==
    /\ [](call.fn = "fillApproximate" => (C21_QueueQualifies /\ C21_NoneStarved))
    /\ [][C21_FillStep]_vars

\* the loop has just filled a coordinate that had no neighbour valid at entry, from
\* neighbours filled earlier, and a coordinate of the same kind is still queued unfilled
C21_Witness ==
    /\ pc = "loop"
    /\ written # <<>>
    /\ Neighbors8(IndexOf(written[Len(written)])) \cap ValidCells0 = {}
    /\ \E k \in 1..Len(toProcess) :
           /\ isHole[IndexOf(toProcess[k])]
           /\ Neighbors8(IndexOf(toProcess[k])) \cap ValidCells0 = {}

\* the smallest and the largest of the values valid at entry, ValidCells0 not empty
MinValid0 ==
    CHOOSE v \in {image0[i] : i \in ValidCells0} : \A i \in ValidCells0 : FGe(image0[i], v)
MaxValid0 ==
    CHOOSE v \in {image0[i] : i \in ValidCells0} : \A i \in ValidCells0 : FGe(v, image0[i])

\* the cells valid at entry and the cells fillApproximate has written so far
C22_ValidOrFilledCells == {i \in Cells : C18_ValidOrFilled(CoordOf(i))}

\* every valid or filled cell holds a value between lo and hi
C22_Between(lo, hi) ==
    \A i \in C22_ValidOrFilledCells : FGe(image[i], lo) /\ FGe(hi, image[i])

\* C22 as stated: at every step of the queue-based fillApproximate every cell that was
\* valid at entry or has been filled holds a value between the minimum and the maximum
\* of the values valid at entry.
C22_WithinInputRange ==
    (call.fn = "fillApproximate" /\ ValidCells0 # {}) => C22_Between(MinValid0, MaxValid0)

\* 1 + 2^-17 and 1 - 2^-17
C22_Widen == [s |-> 0, m |-> MantMin + 64, e |-> 1 - MantBits]
C22_Narrow == [s |-> 0, m |-> MantMax - 128, e |-> -MantBits]

\* C22 amended: at every step of the queue-based fillApproximate every cell that was
\* valid at entry or has been filled holds a value >= 0 that lies between the minimum
\* of the values valid at entry times (1 - 2^-17) and their maximum times (1 + 2^-17);
\* such a cell is not marked as a hole and would not be detected as one.
C22_WithinRoundedRange ==
    (call.fn = "fillApproximate" /\ ValidCells0 # {}) =>
        /\ C22_Between(FMul(MinValid0, C22_Narrow), FMul(MaxValid0, C22_Widen))
        /\ \A i \in C22_ValidOrFilledCells : FGe(image[i], FZero) /\ ~isHole[i]
        /\ \A p \in SeqRange(findHolePixels(image, width, height)) :
               IndexOf(p) \notin C22_ValidOrFilledCells

\* fillApproximate has returned after filling at least two cells, one of which holds
\* more than the largest value valid at entry
C22_Witness ==
    /\ Returned("fillApproximate")
    /\ ValidCells0 # {}
    /\ Len(written) >= 2
    /\ \E i \in HoleCells0 : FGt(image[i], MaxValid0)
====
